---- MODULE Spec2Model ----
(***************************************************************************)
(* The task scheduler, the per-task time accounting, the trap dispatcher   *)
(* and the write syscall of the kernel under os/src.                       *)
(*                                                                         *)
(* One action is one entry into the kernel: from the trap (or the boot     *)
(* call) up to the next return to user mode or the halt.  A handler that   *)
(* ends in __switch continues in the code the incoming task's TaskContext  *)
(* resumes, so the action runs that continuation as well.  Every call of   *)
(* get_time_ms is an input of the action: a reading of a clock that never  *)
(* runs backwards.                                                         *)
(***************************************************************************)
EXTENDS Integers, Sequences, FiniteSets, TLC

\* ------------------------------------------------------------------ bounds
\* capacity of the task table (crate::config::MAX_APP_NUM)
MAX_APP_NUM == 2
\* the largest value get_time_ms returns in the model
MaxTime == 2
\* width of the machine word (usize) in bits
WordBits == 3

WORD == 2 ^ WordBits
Slots == 0 .. (MAX_APP_NUM - 1)
Words == 0 .. (WORD - 1)

\* Option::None of find_next_task
None == -1

VARIABLES
    num_app,                    \* TaskManager.num_app
    tasks,                      \* TaskManagerInner.tasks
    current_task,               \* TaskManagerInner.current_task
    clock,                      \* the last value get_time_ms returned
    mode,                       \* "boot", "user", "completed", "panic", "borrow_panic";
                                \* the position of the call in WriteSpec, TableSpec, MetricSpec
    guard,                      \* TaskManager.inner is borrowed (UPSafeCell)
    KERNEL_INTERRUPT_TRIGGERED, \* the flag of trap/mod.rs
    trap,                       \* the trap the last action handled, with its result
    window,                     \* per task, the timing window the calls have left open
    uncounted,                  \* per task, clock time on the processor that is in neither cost
    order,                      \* the slots that became Running, in order
    preempted,                  \* a task has been suspended since boot
    log,                        \* the status assignments of the last action
    switch_guard,               \* the guard at the __switch of the last action:
                                \* "free", "held", or "none" without a __switch
    next_trigger,               \* the last action called set_next_trigger, and did
                                \* so before it assigned a status: "armed", "late", "none"
    nested,                     \* every TaskMetric call of the last action found
                                \* the window of its kind: none for a start, its own for an end
    call                        \* the method TableSpec or MetricSpec called, with its result

vars == << num_app, tasks, current_task, clock, mode, guard, KERNEL_INTERRUPT_TRIGGERED,
           trap, window, uncounted, order, preempted, log,
           switch_guard, next_trigger, nested, call >>

\* ------------------------------------------------------------- TaskMetric
mark_user_start(m, t) == [m EXCEPT !.tmp_time_marker = t]

mark_user_end(m, t) ==
    IF m.tmp_time_marker = 0
    THEN m
    ELSE [m EXCEPT !.user_cost_ms = (m.user_cost_ms + t) - m.tmp_time_marker,
                   !.tmp_time_marker = 0]

mark_kernel_start(m, t) == [m EXCEPT !.tmp_time_marker = t]

mark_kernel_end(m, t) ==
    IF m.tmp_time_marker = 0
    THEN m
    ELSE [m EXCEPT !.kernel_cost_ms = (m.kernel_cost_ms + t) - m.tmp_time_marker,
                   !.tmp_time_marker = 0]

\* ------------------------------------------------------- the kernel state
\* The operators below take and return the kernel state as one record K:
\* the TaskManagerInner fields, the machine's mode, the slot whose task
\* is on the processor (cpu) and the bookkeeping of what the calls did
\* (window, uncounted, order, log, switch_guard, next_trigger, nested, and
\* marks, the number of TaskMetric calls made).
Kernel ==
    [ tasks |-> tasks, current_task |-> current_task, mode |-> mode, clock |-> clock,
      guard |-> guard,
      cpu |-> IF mode = "user" THEN current_task ELSE None,
      window |-> window, uncounted |-> uncounted,
      order |-> order, preempted |-> preempted, log |-> {},
      switch_guard |-> "none", next_trigger |-> "none", nested |-> TRUE,
      marks |-> 0 ]

\* the kernel has halted: shutdown or a panic; no code runs after it
Stopped(K) == K.mode \in {"completed", "panic", "borrow_panic"}

\* panic!()
Panic(K) == IF Stopped(K) THEN K ELSE [K EXCEPT !.mode = "panic"]

\* UPSafeCell::exclusive_access (RefCell::borrow_mut): panics if the cell is
\* borrowed already
exclusive_access(K) ==
    IF Stopped(K) THEN K
    ELSE IF K.guard THEN [K EXCEPT !.mode = "borrow_panic"]
    ELSE [K EXCEPT !.guard = TRUE]

\* drop(inner), at the call or at the end of the scope of `inner`
drop(K) == IF Stopped(K) THEN K ELSE [K EXCEPT !.guard = FALSE]

\* the end of a method that took `inner` and has made `done` of it: `inner`
\* goes out of scope (a method whose exclusive_access panicked did nothing)
returns(inner, done) == IF Stopped(inner) THEN inner ELSE drop(done)

\* an assignment to tasks[i].task_status; a change of value is logged
SetStatus(K, i, s) ==
    [K EXCEPT !.tasks[i].task_status = s,
              !.log = IF K.tasks[i].task_status = s
                      THEN @
                      ELSE @ \cup {<< i, K.tasks[i].task_status, s >>}]

\* A TaskMetric method is called on slot i, reads the clock as t and leaves
\* the metric m2 and the window w; `open` is the window its kind of call
\* goes with.  The time since the last reading was spent by the task on
\* the processor; what the method adds to the two costs is counted.
Marked(K, i, t, m2, open, w) ==
    LET m == K.tasks[i].task_metric
        spent == IF K.cpu = i THEN t - K.clock ELSE 0
        added == (m2.user_cost_ms + m2.kernel_cost_ms)
                   - (m.user_cost_ms + m.kernel_cost_ms)
    IN  [K EXCEPT !.clock = t,
                  !.tasks[i].task_metric = m2,
                  !.window[i] = w,
                  !.nested = @ /\ K.window[i] = open,
                  !.marks = @ + 1,
                  !.uncounted[i] = @ + spent - added]

\* a call of one of the four TaskMetric methods on slot i, reading the clock as t
UserStartAt(K, i, t) ==
    Marked(K, i, t, mark_user_start(K.tasks[i].task_metric, t), "none", "user")
UserEndAt(K, i, t) ==
    Marked(K, i, t, mark_user_end(K.tasks[i].task_metric, t), "user", "none")
KernelStartAt(K, i, t) ==
    Marked(K, i, t, mark_kernel_start(K.tasks[i].task_metric, t), "none", "kernel")
KernelEndAt(K, i, t) ==
    Marked(K, i, t, mark_kernel_end(K.tasks[i].task_metric, t), "kernel", "none")

\* slot i is put on the processor / the processor is taken from its task;
\* the order of the slots is recorded for as long as no task was suspended
SwitchedIn(K, i) ==
    [K EXCEPT !.cpu = i, !.order = IF K.preempted THEN @ ELSE Append(@, i)]
SwitchedOut(K) == [K EXCEPT !.cpu = None]

\* ------------------------------------------------------------ TaskManager
\* the array literal of the lazy_static initialiser
UnInitTask ==
    [ task_status |-> "UnInit", task_cx |-> "zero_init",
      task_metric |-> [user_cost_ms |-> 0, kernel_cost_ms |-> 0, tmp_time_marker |-> 0] ]

\* the loop of the lazy_static initialiser: every slot of the table
InitSlots == Slots

\* the lazy_static initialiser, run at the first use of TASK_MANAGER
TASK_MANAGER(K) ==
    LET F[S \in SUBSET InitSlots] ==
            IF S = {} THEN K
            ELSE LET i == CHOOSE x \in S : \A y \in S : x >= y
                     P == F[S \ {i}]
                 IN  [SetStatus(P, i, "Ready") EXCEPT !.tasks[i].task_cx = "goto_restore"]
    IN  [F[InitSlots] EXCEPT !.current_task = 0]

\* __switch(current_task_cx_ptr, next_task_cx_ptr): the outgoing context is
\* saved as a return into run_next_task (out = None for the throwaway
\* context of run_first_task), then control goes where the incoming
\* context points: __restore enters user mode, a saved context returns
\* into the trap handler that called suspend_current_and_run_next.
switch(K, out, in) ==
    LET S == IF out = None THEN K ELSE [K EXCEPT !.tasks[out].task_cx = "run_next_task"]
    IN  [S EXCEPT !.mode = IF S.tasks[in].task_cx = "goto_restore" THEN "user" ELSE "handler",
                  !.switch_guard = IF K.guard THEN "held" ELSE "free"]

run_first_task(K, t) ==
    LET inner == exclusive_access(K)
        K1 == SetStatus(inner, 0, "Running")
        K2 == UserStartAt(K1, 0, t)
    IN  IF Stopped(inner) THEN inner
        ELSE switch(drop(SwitchedIn(K2, 0)), None, 0)

\* a mark_current_suspended that leaves the status as it is
mark_current_suspended_NoStatus(K) ==
    LET inner == exclusive_access(K)
    IN  returns(inner, [inner EXCEPT !.preempted = TRUE])

\* a mark_current_suspended that writes the status of slot 0
mark_current_suspended_First(K) ==
    LET inner == exclusive_access(K)
    IN  returns(inner, [SetStatus(inner, 0, "Ready") EXCEPT !.preempted = TRUE])

mark_current_suspended(K) ==
    LET inner == exclusive_access(K)
    IN  returns(inner, [SetStatus(inner, inner.current_task, "Ready")
                          EXCEPT !.preempted = TRUE])

\* a mark_current_exited that writes the status of mark_current_suspended
mark_current_exited_AsReady(K) ==
    LET inner == exclusive_access(K)
    IN  returns(inner, SetStatus(inner, inner.current_task, "Ready"))

\* a mark_current_exited that keeps `inner` when it returns
mark_current_exited_KeepsInner(K) ==
    LET inner == exclusive_access(K)
    IN  IF Stopped(inner) THEN inner
        ELSE SetStatus(inner, inner.current_task, "Exited")

mark_current_exited(K) ==
    LET inner == exclusive_access(K)
    IN  returns(inner, SetStatus(inner, inner.current_task, "Exited"))

\* a find_next_task that takes any slot that is not Running
find_next_task_NotRunning(K) ==
    LET current == K.current_task
        ready == { d \in 1 .. num_app :
                     K.tasks[(current + d) % num_app].task_status # "Running" }
    IN  IF ready = {} THEN None
        ELSE (current + (CHOOSE d \in ready : \A e \in ready : d <= e)) % num_app

\* a find_next_task that looks at the slot after the current one only
find_next_task_NextOnly(K) ==
    LET id == (K.current_task + 1) % num_app
    IN  IF K.tasks[id].task_status = "Ready" THEN id ELSE None

\* a find_next_task that scans current+1 .. num_app-1 and does not wrap around
find_next_task_NoWrap(K) ==
    LET current == K.current_task
        ready == { id \in (current + 1) .. (num_app - 1) :
                     K.tasks[id].task_status = "Ready" }
    IN  IF ready = {} THEN None
        ELSE CHOOSE id \in ready : \A e \in ready : id <= e

\* a find_next_task that starts its scan at the current slot
find_next_task_FromCurrent(K) ==
    LET current == K.current_task
        ready == { d \in 0 .. (num_app - 1) :
                     K.tasks[(current + d) % num_app].task_status = "Ready" }
    IN  IF ready = {} THEN None
        ELSE (current + (CHOOSE d \in ready : \A e \in ready : d <= e)) % num_app

find_next_task(K) ==
    LET current == K.current_task
        ready == { d \in 1 .. num_app :
                     K.tasks[(current + d) % num_app].task_status = "Ready" }
    IN  IF ready = {} THEN None
        ELSE (current + (CHOOSE d \in ready : \A e \in ready : d <= e)) % num_app

\* find_next_task takes `inner` for its scan and drops it when it returns
find_next_task_access(K) ==
    LET inner == exclusive_access(K)
    IN  returns(inner, inner)

\* a run_next_task without the drop(inner) before __switch
run_next_task_NoDrop(K, ts) ==
    LET F == find_next_task_access(K)
        next == find_next_task(F)
        inner == exclusive_access(F)
        current == inner.current_task
    IN  IF Stopped(F) THEN F
        ELSE IF next # None
        THEN LET K1 == [SetStatus(inner, next, "Running") EXCEPT !.current_task = next]
                 K2 == SwitchedOut(KernelEndAt(K1, current, ts[1]))
                 K3 == SwitchedIn(UserStartAt(K2, next, ts[2]), next)
             IN  IF Stopped(inner) THEN inner
                 ELSE switch(K3, current, next)
        ELSE [SwitchedOut(F) EXCEPT !.mode = "completed"]

\* a run_next_task without the assignment inner.current_task = next
run_next_task_KeepsCurrent(K, ts) ==
    LET F == find_next_task_access(K)
        next == find_next_task(F)
        inner == exclusive_access(F)
        current == inner.current_task
    IN  IF Stopped(F) THEN F
        ELSE IF next # None
        THEN LET K1 == SetStatus(inner, next, "Running")
                 K2 == SwitchedOut(KernelEndAt(K1, current, ts[1]))
                 K3 == SwitchedIn(UserStartAt(K2, next, ts[2]), next)
             IN  IF Stopped(inner) THEN inner
                 ELSE switch(drop(K3), current, next)
        ELSE [SwitchedOut(F) EXCEPT !.mode = "completed"]

\* ts = << reading of mark_kernel_end, reading of mark_user_start >>
run_next_task(K, ts) ==
    LET F == find_next_task_access(K)
        next == find_next_task(F)
        inner == exclusive_access(F)
        current == inner.current_task
    IN  IF Stopped(F) THEN F
        ELSE IF next # None
        THEN LET K1 == [SetStatus(inner, next, "Running") EXCEPT !.current_task = next]
                 K2 == SwitchedOut(KernelEndAt(K1, current, ts[1]))
                 K3 == SwitchedIn(UserStartAt(K2, next, ts[2]), next)
             IN  IF Stopped(inner) THEN inner
                 ELSE switch(drop(K3), current, next)
        ELSE [SwitchedOut(F) EXCEPT !.mode = "completed"]

mark_user_time_start(K, t) ==
    LET inner == exclusive_access(K)
    IN  returns(inner, UserStartAt(inner, inner.current_task, t))
mark_user_time_end(K, t) ==
    LET inner == exclusive_access(K)
    IN  returns(inner, UserEndAt(inner, inner.current_task, t))
mark_kernel_time_start(K, t) ==
    LET inner == exclusive_access(K)
    IN  returns(inner, KernelStartAt(inner, inner.current_task, t))
mark_kernel_time_end(K, t) ==
    LET inner == exclusive_access(K)
    IN  returns(inner, KernelEndAt(inner, inner.current_task, t))

\* a suspend_current_and_run_next that exits the task instead
suspend_current_and_run_next_Exits(K, ts) == run_next_task(mark_current_exited(K), ts)

suspend_current_and_run_next(K, ts) == run_next_task(mark_current_suspended(K), ts)

\* an exit_current_and_run_next that suspends the task instead
exit_current_and_run_next_Suspends(K, ts) == run_next_task(mark_current_suspended(K), ts)

exit_current_and_run_next(K, ts) == run_next_task(mark_current_exited(K), ts)

\* ---------------------------------------------------------------- syscall
SYSCALL_WRITE == 64
SYSCALL_EXIT == 93
SYSCALL_INFO_TASK == 10001
\* an id the kernel does not handle
SYSCALL_YIELD == 124
FD_STDOUT == 1

\* crate::batch::app_stack_range() and app_address_range(): the bounds of
\* the regions a buffer may lie in
stack_top == 1
stack_bottom == 3
app_bottom == 4
app_top == 7

\* usize + usize in the machine word
WrapAdd(a, b) == (a + b) % WORD

\* usize as isize and isize as usize
AsIsize(u) == IF u >= WORD \div 2 THEN u - WORD ELSE u
AsUsize(i) == i % WORD

range_check(buf, len) ==
    \/ buf >= stack_top /\ WrapAdd(buf, len) < stack_bottom
    \/ buf >= app_bottom /\ WrapAdd(buf, len) < app_top

\* utf8: the bytes of the buffer are readable and are UTF-8, so that
\* from_raw_parts and from_utf8(..).unwrap() go through (as they do for
\* the empty slice)
sys_write(fd, buf, len, utf8) ==
    IF ~range_check(buf, len)
    THEN [panic |-> FALSE, ret |-> -1]
    ELSE IF fd = FD_STDOUT
         THEN IF utf8 \/ len = 0 THEN [panic |-> FALSE, ret |-> AsIsize(len)]
                                 ELSE [panic |-> TRUE, ret |-> 0]
         ELSE [panic |-> FALSE, ret |-> -1]

sys_info_task == [panic |-> FALSE, ret |-> 0]

\* a syscall that answers an id it does not know with -1
syscall_UnknownFails(K, syscall_id, args, utf8, ts) ==
    IF syscall_id = SYSCALL_WRITE
    THEN LET r == sys_write(args[1], args[2], args[3], utf8)
         IN  [K |-> IF r.panic THEN Panic(K) ELSE K, ret |-> r.ret]
    ELSE IF syscall_id = SYSCALL_EXIT
    THEN [K |-> exit_current_and_run_next(K, ts), ret |-> 0]
    ELSE IF syscall_id = SYSCALL_INFO_TASK
    THEN [K |-> K, ret |-> sys_info_task.ret]
    ELSE [K |-> K, ret |-> -1]

\* The result of syscall(): K after the call, and the value for x[10].
\* sys_exit never returns to its caller.
syscall(K, syscall_id, args, utf8, ts) ==
    IF syscall_id = SYSCALL_WRITE
    THEN LET r == sys_write(args[1], args[2], args[3], utf8)
         IN  [K |-> IF r.panic THEN Panic(K) ELSE K, ret |-> r.ret]
    ELSE IF syscall_id = SYSCALL_EXIT
    THEN [K |-> exit_current_and_run_next(K, ts), ret |-> 0]
    ELSE IF syscall_id = SYSCALL_INFO_TASK
    THEN [K |-> K, ret |-> sys_info_task.ret]
    ELSE [K |-> Panic(K), ret |-> 0]

\* crate::timer::set_next_trigger(), called by a trap handler
set_next_trigger(K) ==
    [K EXCEPT !.next_trigger = IF K.log = {} THEN "armed" ELSE "late"]

\* ------------------------------------------------------------------- trap
UserCauses ==
    { "UserEnvCall", "StoreFault", "StorePageFault", "IllegalInstruction",
      "SupervisorTimer", "LoadFault" }

NoTrap ==
    [ spp |-> "none", cause |-> "none", task |-> None, id |-> 0,
      fd |-> 0, buf |-> 0, len |-> 0, a0 |-> 0, returned |-> FALSE ]

\* user_trap_handler, and after a __switch the rest of the handler the
\* incoming task was suspended in.  ts is the clock at the TaskMetric calls,
\* in the order of the calls: ts[1], ts[2] on entry, ts[3], ts[4] in
\* run_next_task if it switches, the next two before the return to user
\* mode.
user_trap_handler(K, cause, x17, args, utf8, ts) ==
    LET K1 == mark_kernel_time_start(
                  mark_user_time_end([K EXCEPT !.mode = "handler"], ts[1]), ts[2])
        sc == syscall(K1, x17, args, utf8, << ts[3], ts[4] >>)
        K2 == CASE cause = "UserEnvCall" -> sc.K
                [] cause \in {"StoreFault", "StorePageFault"} ->
                       exit_current_and_run_next(K1, << ts[3], ts[4] >>)
                [] cause = "IllegalInstruction" ->
                       exit_current_and_run_next(K1, << ts[3], ts[4] >>)
                [] cause = "SupervisorTimer" ->
                       suspend_current_and_run_next(set_next_trigger(K1), << ts[3], ts[4] >>)
                [] OTHER -> Panic(K1)
        \* x[10] is written when syscall() returns to the handler
        wrote == cause = "UserEnvCall" /\ x17 # SYSCALL_EXIT /\ sc.K.mode = "handler"
        K3 == IF K2.mode = "handler"
              THEN [mark_user_time_start(
                        mark_kernel_time_end(K2, ts[K2.marks + 1]), ts[K2.marks + 2])
                      EXCEPT !.mode = "user"]
              ELSE K2
    IN  [K |-> K3, returned |-> wrote, a0 |-> IF wrote THEN AsUsize(sc.ret) ELSE 0]

\* a kernel_trap_handler that does not set the flag
kernel_trap_handler_NoFlag(flag, cause) ==
    IF cause = "SupervisorTimer"
    THEN [flag |-> flag, trigger |-> "armed", panic |-> FALSE]
    ELSE [flag |-> flag, trigger |-> "none", panic |-> TRUE]

\* kernel_trap_handler: the result is the new flag, whether it called
\* set_next_trigger, and whether the kernel goes on
kernel_trap_handler(flag, cause) ==
    IF cause = "SupervisorTimer"
    THEN [flag |-> TRUE, trigger |-> "armed", panic |-> FALSE]
    ELSE [flag |-> flag, trigger |-> "none", panic |-> TRUE]

\* --------------------------------------------------------------- actions
RECURSIVE Readings(_, _)
\* the sequences of n readings of a clock that stands at `from`
Readings(from, n) ==
    IF n = 0 THEN { << >> }
    ELSE UNION { { << t >> \o r : r \in Readings(t, n - 1) } : t \in from .. MaxTime }

\* Readings, for every stand of the clock and every number of calls
ReadingsOf == [from \in 0 .. MaxTime |-> [n \in 0 .. 6 |-> Readings(from, n)]]

\* the variables take the fields of the kernel state K
Becomes(K) ==
    /\ tasks' = K.tasks
    /\ current_task' = K.current_task
    /\ mode' = K.mode
    /\ clock' = K.clock
    /\ window' = K.window
    /\ uncounted' = K.uncounted
    /\ order' = K.order
    /\ preempted' = K.preempted
    /\ log' = K.log
    /\ guard' = K.guard
    /\ switch_guard' = K.switch_guard
    /\ next_trigger' = K.next_trigger
    /\ nested' = K.nested

\* no method has been called by TableSpec or MetricSpec
NoCall == [ op |-> "none", ret |-> None, error |-> FALSE ]

\* the variables of the bookkeeping, before any handler has run
Unused ==
    /\ window = [i \in Slots |-> "none"]
    /\ uncounted = [i \in Slots |-> 0]
    /\ order = << >>
    /\ preempted = FALSE
    /\ log = {}
    /\ guard = FALSE
    /\ switch_guard = "none"
    /\ next_trigger = "none"
    /\ nested = TRUE

Init ==
    /\ num_app \in 1 .. MAX_APP_NUM
    /\ tasks = [i \in Slots |-> UnInitTask]
    /\ current_task = 0
    /\ clock = 0
    /\ mode = "boot"
    /\ KERNEL_INTERRUPT_TRIGGERED = FALSE
    /\ trap = NoTrap
    /\ call = NoCall
    /\ Unused

\* rust_main calls task::run_first_task(); the first use of TASK_MANAGER
\* runs its initialiser
RunFirstTask ==
    /\ mode = "boot"
    /\ \E t \in clock .. MaxTime :
          \E K \in { run_first_task(TASK_MANAGER(Kernel), t) } : Becomes(K)
    /\ trap' = NoTrap
    /\ UNCHANGED << num_app, KERNEL_INTERRUPT_TRIGGERED, call >>

\* the readings ts, and the last of them for the calls that are not made
Padded(ts) == ts \o [k \in 1 .. (6 - Len(ts)) |-> ts[Len(ts)]]

\* the number of TaskMetric calls the handler makes for this trap: which
\* calls it makes does not depend on the clock
MetricCalls(cause, x17, args, utf8) ==
    user_trap_handler(Kernel, cause, x17, args, utf8, [k \in 1 .. 6 |-> clock]).K.marks

\* a trap taken from user mode (sstatus.SPP = User)
UserTrap(cause, x17, args, utf8) ==
    /\ mode = "user"
    /\ \E ts \in ReadingsOf[clock][MetricCalls(cause, x17, args, utf8)] :
          \E r \in { user_trap_handler(Kernel, cause, x17, args, utf8, Padded(ts)) } :
              /\ Becomes(r.K)
              /\ trap' = [ spp |-> "User", cause |-> cause, task |-> current_task,
                           id |-> x17, fd |-> args[1], buf |-> args[2], len |-> args[3],
                           a0 |-> r.a0, returned |-> r.returned ]
    /\ UNCHANGED << num_app, KERNEL_INTERRUPT_TRIGGERED, call >>

\* The arguments of the write syscalls the tasks make: a buffer inside the
\* stack, one that ends at the end of the stack, one that starts below it,
\* one whose end wraps around the word, and a descriptor other than stdout.
\* (WriteSpec below runs sys_write on every fd, buf and len.)
WriteArgs ==
    { << FD_STDOUT, stack_top, (stack_bottom - stack_top) - 1 >>,
      << FD_STDOUT, stack_top, stack_bottom - stack_top >>,
      << FD_STDOUT, stack_top - 1, 1 >>,
      << FD_STDOUT, stack_top + 1, WORD - 2 >>,
      << FD_STDOUT + 1, stack_top, (stack_bottom - stack_top) - 1 >> }

\* sys_write reads the bytes of the buffer: only then does it matter what
\* they are
ReadsBuffer(args) == args[1] = FD_STDOUT /\ range_check(args[2], args[3]) /\ args[3] > 0

SysWrite ==
    \E args \in WriteArgs, utf8 \in BOOLEAN :
        /\ utf8 \/ ReadsBuffer(args)
        /\ UserTrap("UserEnvCall", SYSCALL_WRITE, args, utf8)

SysExit == UserTrap("UserEnvCall", SYSCALL_EXIT, << 0, 0, 0 >>, TRUE)

SysInfoTask == UserTrap("UserEnvCall", SYSCALL_INFO_TASK, << 0, 0, 0 >>, TRUE)

SysUnknown == UserTrap("UserEnvCall", SYSCALL_YIELD, << 0, 0, 0 >>, TRUE)

UserFault ==
    \E cause \in {"StoreFault", "StorePageFault", "IllegalInstruction"} :
        UserTrap(cause, 0, << 0, 0, 0 >>, TRUE)

UserTimerInterrupt == UserTrap("SupervisorTimer", 0, << 0, 0, 0 >>, TRUE)

UserOtherTrap == UserTrap("LoadFault", 0, << 0, 0, 0 >>, TRUE)

\* a trap taken from supervisor mode (sstatus.SPP = Supervisor), while the
\* kernel runs with interrupts enabled
KernelTrap(cause) ==
    /\ mode \in {"boot", "user"}
    /\ LET r == kernel_trap_handler(KERNEL_INTERRUPT_TRIGGERED, cause)
       IN  /\ KERNEL_INTERRUPT_TRIGGERED' = r.flag
           /\ next_trigger' = r.trigger
           /\ mode' = IF r.panic THEN "panic" ELSE mode
    /\ trap' = [NoTrap EXCEPT !.spp = "Supervisor", !.cause = cause]
    /\ log' = {}
    /\ switch_guard' = "none"
    /\ nested' = TRUE
    /\ UNCHANGED << num_app, tasks, current_task, clock, guard, window, uncounted,
                    order, preempted, call >>

KernelTimerInterrupt == KernelTrap("SupervisorTimer")

KernelOtherTrap == \E cause \in {"StoreFault", "StorePageFault", "LoadFault"} : KernelTrap(cause)

Next ==
    \/ RunFirstTask
    \/ SysWrite
    \/ SysExit
    \/ SysInfoTask
    \/ SysUnknown
    \/ UserFault
    \/ UserTimerInterrupt
    \/ UserOtherTrap
    \/ KernelTimerInterrupt
    \/ KernelOtherTrap

Spec == Init /\ [][Next]_vars

\* ------------------------------------------------- sys_write on its own
\* The write syscall as a function of its arguments: every fd, buf and len
\* of the word, called once.
WriteInit ==
    /\ num_app = 1
    /\ tasks = [i \in Slots |-> UnInitTask]
    /\ current_task = 0
    /\ clock = 0
    /\ KERNEL_INTERRUPT_TRIGGERED = FALSE
    /\ call = NoCall
    /\ Unused
    /\ mode = "sys_write"
    /\ \E fd \in 0 .. 2, buf \in Words, len \in Words :
          trap = [NoTrap EXCEPT !.spp = "User", !.cause = "UserEnvCall", !.task = 0,
                                !.id = SYSCALL_WRITE, !.fd = fd, !.buf = buf, !.len = len]

\* sys_write; its first call is range_check, which logs with error!() when
\* it rejects the span
WriteCall ==
    /\ mode = "sys_write"
    /\ \E utf8 \in BOOLEAN :
          LET r == sys_write(trap.fd, trap.buf, trap.len, utf8)
          IN  /\ trap' = [trap EXCEPT !.a0 = AsUsize(r.ret), !.returned = ~r.panic]
              /\ mode' = IF r.panic THEN "panic" ELSE "returned"
    /\ call' = [NoCall EXCEPT !.op = "range_check",
                              !.error = ~range_check(trap.buf, trap.len)]
    /\ UNCHANGED << num_app, tasks, current_task, clock, guard, KERNEL_INTERRUPT_TRIGGERED,
                    window, uncounted, order, preempted, log,
                    switch_guard, next_trigger, nested >>

WriteNext == WriteCall

WriteSpec == WriteInit /\ [][WriteNext]_vars

\* ------------------------------- the methods of the table on their own
\* mark_current_suspended and find_next_task as functions of the table:
\* every status in every slot, every current_task below num_app.
TaskStatus == { "UnInit", "Ready", "Running", "Exited" }

TableInit ==
    /\ num_app \in 1 .. MAX_APP_NUM
    /\ current_task \in 0 .. (num_app - 1)
    /\ \E st \in [Slots -> TaskStatus] :
          tasks = [i \in Slots |-> [UnInitTask EXCEPT !.task_status = st[i],
                                                      !.task_cx = "goto_restore"]]
    /\ clock = 0
    /\ KERNEL_INTERRUPT_TRIGGERED = FALSE
    /\ trap = NoTrap
    /\ call = NoCall
    /\ Unused
    /\ mode = "table"

\* TASK_MANAGER.mark_current_suspended(), called once and once more
CallMarkCurrentSuspended ==
    /\ mode \in {"table", "suspended_once"}
    /\ LET K == mark_current_suspended(Kernel)
       IN  /\ tasks' = K.tasks
           /\ current_task' = K.current_task
           /\ guard' = K.guard
           /\ preempted' = K.preempted
           /\ log' = K.log
    /\ mode' = IF mode = "table" THEN "suspended_once" ELSE "suspended_twice"
    /\ call' = [NoCall EXCEPT !.op = "mark_current_suspended"]
    /\ UNCHANGED << num_app, clock, KERNEL_INTERRUPT_TRIGGERED, trap, window, uncounted,
                    order, switch_guard, next_trigger, nested >>

\* TASK_MANAGER.find_next_task()
CallFindNextTask ==
    /\ mode = "table"
    /\ LET K == find_next_task_access(Kernel)
       IN  /\ guard' = K.guard
           /\ call' = [NoCall EXCEPT !.op = "find_next_task", !.ret = find_next_task(K)]
    /\ mode' = "found"
    /\ UNCHANGED << num_app, tasks, current_task, clock, KERNEL_INTERRUPT_TRIGGERED, trap,
                    window, uncounted, order, preempted, log,
                    switch_guard, next_trigger, nested >>

TableNext == CallMarkCurrentSuspended \/ CallFindNextTask

TableSpec == TableInit /\ [][TableNext]_vars

\* ---------------------------------- the TaskMetric methods on their own
\* The four methods as functions of the metric and the clock: the metric of
\* slot 0 with every cost and marker the clock allows, with and without an
\* open window, and one call.
\* the TaskMetric of slot 0
Metric0 == tasks[0].task_metric

StartMethods == { "mark_user_start", "mark_kernel_start" }
EndMethods == { "mark_user_end", "mark_kernel_end" }

\* the method calls error!()
reports(method, m) == method \in EndMethods /\ m.tmp_time_marker = 0

MetricInit ==
    /\ num_app = 1
    /\ current_task = 0
    /\ clock \in 0 .. MaxTime
    /\ \E u \in 0 .. clock, k \in 0 .. clock, marker \in 0 .. clock :
          /\ u + k <= clock
          /\ tasks = [i \in Slots |->
                         IF i = 0
                         THEN [ task_status |-> "Running", task_cx |-> "goto_restore",
                                task_metric |-> [ user_cost_ms |-> u, kernel_cost_ms |-> k,
                                                  tmp_time_marker |-> marker ] ]
                         ELSE [UnInitTask EXCEPT !.task_status = "Ready",
                                                 !.task_cx = "goto_restore"]]
          /\ \E w \in {"none", "user", "kernel"} :
                /\ marker # 0 => w # "none"
                /\ window = [i \in Slots |-> IF i = 0 THEN w ELSE "none"]
    /\ uncounted = [i \in Slots |-> 0]
    /\ order = << 0 >>
    /\ preempted = FALSE
    /\ log = {}
    /\ guard = FALSE
    /\ switch_guard = "none"
    /\ next_trigger = "none"
    /\ nested = TRUE
    /\ KERNEL_INTERRUPT_TRIGGERED = FALSE
    /\ trap = NoTrap
    /\ call = NoCall
    /\ mode = "metric"

\* one call of tasks[0].task_metric.<method>(), get_time_ms() returning t
CallMetric(method) ==
    /\ mode = "metric"
    /\ \E t \in clock .. MaxTime :
          LET K == CASE method = "mark_user_start" -> UserStartAt(Kernel, 0, t)
                     [] method = "mark_user_end" -> UserEndAt(Kernel, 0, t)
                     [] method = "mark_kernel_start" -> KernelStartAt(Kernel, 0, t)
                     [] method = "mark_kernel_end" -> KernelEndAt(Kernel, 0, t)
          IN  /\ tasks' = K.tasks
              /\ clock' = K.clock
              /\ window' = K.window
              /\ uncounted' = K.uncounted
              /\ nested' = K.nested
              /\ mode' = K.mode
    /\ call' = [NoCall EXCEPT !.op = method, !.error = reports(method, Metric0)]
    /\ UNCHANGED << num_app, current_task, guard, KERNEL_INTERRUPT_TRIGGERED, trap,
                    order, preempted, log, switch_guard, next_trigger >>

MetricNext ==
    \/ CallMetric("mark_user_start")
    \/ CallMetric("mark_user_end")
    \/ CallMetric("mark_kernel_start")
    \/ CallMetric("mark_kernel_end")

MetricSpec == MetricInit /\ [][MetricNext]_vars

\* ================================================================ claims
Status(i) == tasks[i].task_status
Metric(i) == tasks[i].task_metric
Loaded == 0 .. (num_app - 1)
Halted == mode \in {"completed", "panic"}
UserTrapOf(causes) == trap.spp = "User" /\ trap.cause \in causes
FaultCauses == {"StoreFault", "StorePageFault", "IllegalInstruction"}

\* C1: in every reachable state at most one slot of the task table is Running.
C1_AtMostOneRunning == Cardinality({ i \in Slots : Status(i) = "Running" }) <= 1

\* C1 witness: a timer interrupt has taken the processor from one task and
\* given it to another, which is Running while the first is Ready.
C1_Witness ==
    /\ UserTrapOf({"SupervisorTimer"})
    /\ trap.task # current_task
    /\ Status(current_task) = "Running"
    /\ Status(trap.task) = "Ready"

LegalTransitions ==
    { << "UnInit", "Ready" >>, << "Ready", "Running" >>,
      << "Running", "Ready" >>, << "Running", "Exited" >> }

\* C2: every change of a slot's status is UnInit->Ready, Ready->Running,
\* Running->Ready or Running->Exited, and a slot that is Exited stays Exited
\* (so run_next_task never selects it).
C2_LegalTransitions ==
    [][ /\ \A e \in log' : << e[2], e[3] >> \in LegalTransitions
        /\ \A i \in Slots : Status(i) = "Exited" => Status(i)' = "Exited" ]_vars

\* C2 witness: a timer interrupt suspends the current task and run_next_task
\* makes a Ready slot Running while the table holds an Exited slot, which
\* is passed over.
C2_Witness ==
    /\ UserTrapOf({"SupervisorTimer"})
    /\ << current_task, "Running", "Ready" >> \in log
    /\ << current_task, "Ready", "Running" >> \in log
    /\ \E j \in Loaded : Status(j) = "Exited"

Exited == { i \in Slots : Status(i) = "Exited" }
Counting(n) == [k \in 1 .. n |-> k - 1]

\* C3 as amended: after run_first_task, with no yield or preemption, the slots that become
\* Running are 0, 1, 2, ... in this order, one more per exit; the machine
\* reports completion and halts when num_app tasks have exited, not before.
C3_ExitsInOrder ==
    (~preempted /\ Len(order) > 0) =>
        /\ order = Counting(Len(order))
        /\ Cardinality(Exited) < num_app =>
               mode # "completed" /\ Len(order) = Cardinality(Exited) + 1
        /\ Cardinality(Exited) >= num_app =>
               mode = "completed" /\ Len(order) = num_app

\* C3 witness: the whole table was loaded and every task has exited in turn.
C3_Witness ==
    /\ ~preempted
    /\ num_app = MAX_APP_NUM
    /\ mode = "completed"
    /\ order = Counting(MAX_APP_NUM)

\* C3 as stated: run_first_task and num_app - 1 exits, with no yield or
\* preemption, end in the completion halt, with slots 0 .. num_app-1 visited
\* in order.
C3_Original ==
    (~preempted /\ Len(order) > 0 /\ Cardinality(Exited) = num_app - 1) =>
        mode = "completed" /\ order = Counting(num_app)

\* cyclic distance from slot t to slot j, in 1 .. num_app
Distance(t, j) == IF j > t THEN j - t ELSE (j + num_app) - t

\* C4: after an illegal instruction or a store fault of the Running task,
\* that task and no other is Exited by the handler; the kernel does not
\* panic; it halts with the completion message only if no loaded task is
\* Ready, and otherwise the nearest Ready task after the faulting one is
\* Running.
C4_FaultIsolated ==
    UserTrapOf(FaultCauses) =>
        /\ mode # "panic"
        /\ Status(trap.task) = "Exited"
        /\ \A e \in log : e[3] = "Exited" => e[1] = trap.task /\ e[2] = "Running"
        /\ IF mode = "completed"
           THEN \A j \in Loaded : Status(j) # "Ready"
           ELSE /\ mode = "user"
                /\ current_task \in Loaded \ {trap.task}
                /\ << current_task, "Ready", "Running" >> \in log
                /\ \A j \in Loaded : Status(j) = "Ready" =>
                       Distance(trap.task, j) > Distance(trap.task, current_task)

\* C4 witness: a task has faulted and another task has the processor.
C4_Witness ==
    /\ UserTrapOf(FaultCauses)
    /\ mode = "user"
    /\ Status(current_task) = "Running"
    /\ Status(trap.task) = "Exited"

\* C5 as amended: the completion halt happens only when no slot below
\* num_app is Ready (the slots from num_app on are Ready from boot to halt);
\* a reschedule that does not halt has made a Ready slot Running.
C5_HaltOnlyWithoutReadyTask ==
    /\ mode = "completed" => \A i \in Loaded : Status(i) # "Ready"
    /\ (UserTrapOf(FaultCauses \cup {"SupervisorTimer"}) /\ mode # "completed") =>
           /\ << current_task, "Ready", "Running" >> \in log
           /\ Status(current_task) = "Running"

\* C5 witness: the machine has halted with the completion message while a
\* slot that was never loaded is Ready.
C5_Witness ==
    /\ mode = "completed"
    /\ \E i \in Slots \ Loaded : Status(i) = "Ready"

\* C5 as stated: at the completion halt no slot of the task table is Ready.
C5_Original == mode = "completed" => \A i \in Slots : Status(i) # "Ready"

\* The machine with a kernel whose own code does not fault: every step but
\* the kernel-mode faults.
LiveNext ==
    \/ RunFirstTask
    \/ SysWrite
    \/ SysExit
    \/ SysInfoTask
    \/ SysUnknown
    \/ UserFault
    \/ UserTimerInterrupt
    \/ UserOtherTrap
    \/ KernelTimerInterrupt

\* a step of UserTimerInterrupt, told by the trap it records
TimerStep == mode = "user" /\ trap'.spp = "User" /\ trap'.cause = "SupervisorTimer"

\* The timer interrupts a task that stays in user mode.  This is
\* WF_vars(UserTimerInterrupt), with the guard of the action, mode = "user",
\* for ENABLED and TimerStep for the action.
TimerFair == ([]<>(mode # "user")) \/ ([]<><< TimerStep >>_vars)

\* rust_main reaches run_first_task, and the timer is fair.
LiveSpec == Init /\ [][LiveNext]_vars /\ WF_vars(RunFirstTask) /\ TimerFair

\* C6: if every task that is given the processor again and again
\* eventually exits or faults (and is Exited from then on), then every one
\* of the num_app tasks is eventually Exited and the machine halts with the
\* completion message for good.
C6_AllTasksFinish ==
    (\A i \in Slots : ([]<>(Status(i) = "Running")) => <>[](Status(i) = "Exited"))
        => <>[](mode = "completed" /\ \A i \in Loaded : Status(i) = "Exited")

\* C6 witness: the whole table was loaded, tasks were preempted on the way,
\* and all of them have exited.
C6_Witness ==
    /\ mode = "completed"
    /\ preempted
    /\ num_app = MAX_APP_NUM
    /\ \A i \in Loaded : Status(i) = "Exited"

Cost(i) == Metric(i).user_cost_ms + Metric(i).kernel_cost_ms

\* the clock time the task of slot i has spent on the processor
Occupied(i) == Cost(i) + uncounted[i]

\* C7 as stated: for every Exited task, once it has been switched away from
\* or the machine has halted, user_cost_ms + kernel_cost_ms is the clock
\* time the task spent on the processor and tmp_time_marker is 0.
C7_Original ==
    \A i \in Slots :
        (Status(i) = "Exited" /\ (current_task # i \/ Halted)) =>
            Cost(i) = Occupied(i) /\ Metric(i).tmp_time_marker = 0

\* C8 as stated: for every task, tmp_time_marker is 0 exactly when no
\* measurement window of the task is open.
C8_Original ==
    \A i \in Slots : (Metric(i).tmp_time_marker = 0) <=> (window[i] = "none")

\* [buf, buf+len) lies inside the region [lo, hi), with the sum not wrapped
SpanInside(lo, hi, buf, len) == buf >= lo /\ buf + len <= hi
SpanValid(buf, len) ==
    \/ SpanInside(stack_top, stack_bottom, buf, len)
    \/ SpanInside(app_bottom, app_top, buf, len)

WriteHandled ==
    /\ UserTrapOf({"UserEnvCall"})
    /\ trap.id = SYSCALL_WRITE
    /\ mode # "sys_write"

\* C9 as stated: sys_write(1, ptr, len) returns len if and only if the span
\* [ptr, ptr+len) lies inside the stack range or inside the app range.
C9_Original ==
    (WriteHandled /\ trap.fd = FD_STDOUT) =>
        ((trap.returned /\ trap.a0 = trap.len) <=> SpanValid(trap.buf, trap.len))

\* C10 as stated: a write with an invalid buffer span or an fd other than 1
\* returns -1, and the calling task stays Running and current, no slot
\* changes status and the kernel does not halt.
C10_Original ==
    (WriteHandled /\ (trap.fd # FD_STDOUT \/ ~SpanValid(trap.buf, trap.len))) =>
        /\ trap.returned
        /\ trap.a0 = AsUsize(-1)
        /\ mode = "user"
        /\ current_task = trap.task
        /\ Status(trap.task) = "Running"
        /\ log = {}

KnownSyscalls == { SYSCALL_WRITE, SYSCALL_EXIT, SYSCALL_INFO_TASK }

\* C11: a user environment call whose syscall id is not 64, 93 or 10001
\* ends in the kernel's panic: no value is returned to the task, no status
\* is assigned and no task is given the processor.
C11_UnknownSyscallIsFatal ==
    (UserTrapOf({"UserEnvCall"}) /\ trap.id \notin KnownSyscalls) =>
        /\ mode = "panic"
        /\ ~trap.returned
        /\ log = {}
        /\ switch_guard = "none"

\* C11 witness: a task has made the call with the id 124 (yield), which
\* syscall() does not route, and the kernel has panicked.
C11_Witness ==
    /\ UserTrapOf({"UserEnvCall"})
    /\ trap.id = SYSCALL_YIELD
    /\ mode = "panic"
    /\ Status(trap.task) = "Running"

\* C12: mark_current_suspended leaves a current_task slot that is Ready
\* Ready, a second call leaves the table of the first, and a call changes
\* nothing but the status of the current_task slot.
C12_SuspendIdempotent ==
    [][ call'.op = "mark_current_suspended" =>
          /\ tasks' = [tasks EXCEPT ![current_task].task_status = "Ready"]
          /\ Status(current_task) = "Ready" => tasks' = tasks
          /\ mode = "suspended_once" => tasks' = tasks
          /\ current_task' = current_task
          /\ num_app' = num_app
          /\ guard' = guard ]_vars

\* C12 witness: the method has been called twice, the second time on a slot
\* that was Ready, and another slot of the table is still Running.
C12_Witness ==
    /\ mode = "suspended_twice"
    /\ Status(current_task) = "Ready"
    /\ \E j \in Slots \ {current_task} : Status(j) = "Running"

\* C13: at every __switch of run_first_task and run_next_task the guard of
\* TaskManager.inner is free, and the code the switch resumes takes the
\* guard without a panic.
C13_GuardFreeAtSwitch ==
    /\ switch_guard # "held"
    /\ mode # "borrow_panic"
    /\ mode = "user" => ~guard

\* C13 witness: run_next_task has switched to a task that was suspended
\* before, and that task has gone through mark_kernel_time_end and
\* mark_user_time_start, which take the guard, back to user mode.
C13_Witness ==
    /\ switch_guard = "free"
    /\ UserTrapOf({"SupervisorTimer"})
    /\ mode = "user"
    /\ tasks[current_task].task_cx = "run_next_task"
    /\ window[current_task] = "user"

\* the cyclic distances in 1 .. num_app from current_task at which a slot is Ready
ReadyDistances ==
    { d \in 1 .. num_app : Status((current_task + d) % num_app) = "Ready" }

\* C14 as amended: find_next_task returns the Ready slot at the smallest
\* cyclic distance d in 1 .. num_app from current_task, the index
\* (current_task + d) mod num_app, and returns none exactly when no slot
\* below num_app is Ready.
C14_FindNextTask ==
    call.op = "find_next_task" =>
        /\ call.ret = None <=> \A i \in Loaded : Status(i) # "Ready"
        /\ call.ret # None =>
               \E d \in ReadyDistances :
                   /\ call.ret = (current_task + d) % num_app
                   /\ \A e \in ReadyDistances : d <= e
        /\ ~guard

\* C14 witness: the only Ready slot was current_task itself, found at
\* distance num_app after the scan of the other slots.
C14_Witness ==
    /\ call.op = "find_next_task"
    /\ num_app = MAX_APP_NUM
    /\ num_app > 1
    /\ call.ret = current_task
    /\ \A i \in Loaded \ {current_task} : Status(i) = "Exited"

\* C14 as stated: ... and returns none exactly when no slot of the table is
\* Ready.
C14_Original ==
    call.op = "find_next_task" =>
        /\ call.ret = None <=> \A i \in Slots : Status(i) # "Ready"
        /\ call.ret # None =>
               \E d \in ReadyDistances :
                   /\ call.ret = (current_task + d) % num_app
                   /\ \A e \in ReadyDistances : d <= e

\* C15: a slot that is Running is the slot current_task; current_task
\* changes only in run_next_task, to the slot it has just made Running.
C15_CurrentIsRunning ==
    [][ /\ \A i \in Slots : Status(i)' = "Running" => i = current_task'
        /\ current_task' # current_task =>
               /\ << current_task', "Ready", "Running" >> \in log'
               /\ switch_guard' # "none" ]_vars

\* C15 witness: a task has called sys_exit and run_next_task has made
\* another slot current and Running.
C15_Witness ==
    /\ UserTrapOf({"UserEnvCall"})
    /\ trap.id = SYSCALL_EXIT
    /\ current_task # trap.task
    /\ Status(current_task) = "Running"
    /\ Status(trap.task) = "Exited"

\* the loaded slots other than the current one that are Ready
OtherReady == { j \in Loaded \ {current_task} : Status(j) = "Ready" }

\* C16: a timer interrupt taken from user mode arms the next trigger before
\* it assigns a status and makes the interrupted task Ready; the nearest
\* Ready slot after it becomes current and Running; with no other Ready
\* slot that is the interrupted task itself; the machine goes back to user
\* mode and does not halt.
C16_TimerPreempts ==
    [][ (trap'.spp = "User" /\ trap'.cause = "SupervisorTimer") =>
          /\ next_trigger' = "armed"
          /\ mode' = "user"
          /\ << current_task, "Running", "Ready" >> \in log'
          /\ << current_task', "Ready", "Running" >> \in log'
          /\ tasks'[current_task'].task_status = "Running"
          /\ IF OtherReady = {}
             THEN current_task' = current_task
             ELSE /\ current_task' \in OtherReady
                  /\ tasks'[current_task].task_status = "Ready"
                  /\ \A j \in OtherReady :
                         Distance(current_task, current_task') <= Distance(current_task, j) ]_vars

\* C16 witness: the interrupted task was the only one left, the others
\* having exited; it was selected again and runs.
C16_Witness ==
    /\ UserTrapOf({"SupervisorTimer"})
    /\ num_app = MAX_APP_NUM
    /\ num_app > 1
    /\ current_task = trap.task
    /\ mode = "user"
    /\ \A j \in Loaded \ {trap.task} : Status(j) = "Exited"

\* C17: a timer interrupt taken from supervisor mode sets the flag, arms the
\* next trigger and leaves the table (statuses, metrics, contexts),
\* current_task and the mode as they are; a trap of any other cause taken
\* from supervisor mode ends in the kernel's panic.
C17_KernelTrap ==
    [][ trap'.spp = "Supervisor" =>
          IF trap'.cause = "SupervisorTimer"
          THEN /\ KERNEL_INTERRUPT_TRIGGERED'
               /\ next_trigger' = "armed"
               /\ tasks' = tasks
               /\ current_task' = current_task
               /\ mode' = mode
               /\ guard' = guard
               /\ log' = {}
          ELSE mode' = "panic" ]_vars

\* C17 witness: the timer has interrupted the kernel while a task is
\* Running with a window open, and the task is still Running.
C17_Witness ==
    /\ trap.spp = "Supervisor"
    /\ trap.cause = "SupervisorTimer"
    /\ KERNEL_INTERRUPT_TRIGGERED
    /\ mode = "user"
    /\ Status(current_task) = "Running"
    /\ Metric(current_task).tmp_time_marker # 0

\* C18 as stated: every start is called with no window of the task open,
\* mark_user_end is called on the window of mark_user_start and
\* mark_kernel_end on the window of mark_kernel_start.
C18_Original == nested

\* C19 as stated: an end called with tmp_time_marker = 0 is logged and leaves
\* the costs and the marker as they are; a start called while a window is
\* open is reported; no call halts the kernel; no call lowers user_cost_ms
\* or kernel_cost_ms.
C19_Original ==
    [][ /\ (call'.op \in EndMethods /\ Metric0.tmp_time_marker = 0) =>
               call'.error /\ Metric0' = Metric0
        /\ (call'.op \in StartMethods /\ window[0] # "none") => call'.error
        /\ mode' \notin {"panic", "borrow_panic", "completed"}
        /\ Metric0'.user_cost_ms >= Metric0.user_cost_ms
        /\ Metric0'.kernel_cost_ms >= Metric0.kernel_cost_ms ]_vars

\* C20: the guard of TaskManager.inner is never taken while it is held: no
\* handler ends in the panic of a second borrow, every handler leaves the
\* guard free, and a trap taken from supervisor mode does not touch it.
C20_NoReentrantBorrow ==
    /\ mode # "borrow_panic"
    /\ ~guard
    /\ switch_guard \in {"none", "free"}

\* C20 witness: after a timer interrupt taken in kernel mode, a task has
\* faulted; mark_current_exited, find_next_task, run_next_task and the two
\* methods of the handler's tail each took the guard, and a task that had
\* been suspended before runs.
C20_Witness ==
    /\ KERNEL_INTERRUPT_TRIGGERED
    /\ UserTrapOf(FaultCauses)
    /\ mode = "user"
    /\ ~guard
    /\ tasks[current_task].task_cx = "run_next_task"
    /\ Status(trap.task) = "Exited"

\* range_check has returned true for the span of the last write
Accepted == call.op = "range_check" /\ ~call.error

\* C21 as stated: with ptr + len computed modulo 2^w, range_check accepts no
\* span whose true end ptr + len lies beyond the word or beyond the upper
\* bound of the region: an accepted span has its true end inside the word
\* and lies inside the stack range or inside the app range.
C21_Original ==
    Accepted =>
        /\ trap.buf + trap.len < WORD
        /\ SpanValid(trap.buf, trap.len)

====
